---- MODULE Spec2Model ----
(***************************************************************************)
(* Model of src/NotifyingValue/NotifyingValue.cpp: observable values that  *)
(* register with the singleton ValueNotificationManager, notify a delegate *)
(* on assignment and accept textual updates addressed by key.              *)
(*                                                                         *)
(* Strings are sequences of one-character strings, so that joining a path, *)
(* printing a number and splitting on commas are computed, not assumed.    *)
(* Objects are numbered in order of construction; 0 stands for nullptr.    *)
(* Scalars are modelled for the integer instantiations of NotifyingValue.  *)
(***************************************************************************)
EXTENDS Integers, Sequences, FiniteSets, TLC

\* ---- bounds of the model ----
MaxObjs == 3        \* objects constructed in one run
MaxSize == 2        \* largest Size of a NotifyingArray
MaxNotes == 2       \* notifications delivered in one run

nullptr == 0

\* ---- strings ----
K_i1 == <<"i", "1">>
K_a1 == <<"a", "1">>
K_a2 == <<"a", "2">>
K_S1L1 == <<"S", "1", "L", "1">>
K_S1L2 == <<"S", "1", "L", "2">>
K_dotted == <<"S", "1", "L", "1", ".", "i", "1">>

ValueKeys == {K_i1}
ArrayKeys == {K_a1}
StructKeys == {K_S1L1, K_S1L2}

\* values assigned by callers, and initial values given to constructors
Values == {-56}
InitValues == {0, -56}

\* texts handed to Update
Texts == { <<"4", "5">>, <<"x">>, <<"1", ",", "2", ",", "3">> }

Delegates == {"console", "custom"}

VARIABLES
    mInstance,                    \* 0 (nullptr) or 1: the manager singleton
    objs,                         \* every object constructed, by number
    mp_Values,                    \* the manager's vector of registered objects
    mCurrentNotificatinoDelegate, \* the delegate notifications go to
    received,                     \* what delegates were sent, in order
    last                          \* the operation just run and what it returned

vars == <<mInstance, objs, mp_Values, mCurrentNotificatinoDelegate, received, last>>

\* ---- operator<< on integers (NotifyingValue::SendUpdate, array ctor) ----
Digit(d) == <<"0", "1", "2", "3", "4", "5", "6", "7", "8", "9">>[d + 1]

RECURSIVE NatText(_)
NatText(n) == IF n < 10 THEN <<Digit(n)>>
              ELSE NatText(n \div 10) \o <<Digit(n % 10)>>

ToText(v) == IF v < 0 THEN <<"-">> \o NatText(0 - v) ELSE NatText(v)

\* keys handed to Update
UpdateKeys == {K_i1, K_a1, K_S1L1, K_dotted}

\* ---- NotifyingValueBase ----
Obj(kind, key, parent, value, elems) ==
    [kind |-> kind, key |-> key, mpParent |-> parent, mValue |-> value, mArray |-> elems]

IsValue(os, id) == os[id].kind = "value"
StructIds(os) == {id \in 1..Len(os) : os[id].kind = "struct"}

\* ---- ValueNotificationManager ----
\* mutant: the null check is missing, every call makes another manager
GetInstance_AlwaysNew == mInstance + 1

GetInstance == IF mInstance = nullptr THEN 1 ELSE mInstance

\* mutant: an object that is already in the vector is not added again
Add_Dedup(list, id) ==
    IF \E i \in 1..Len(list) : list[i] = id THEN list ELSE Append(list, id)

Add(list, id) == Append(list, id)

\* the parent walk of ValueNotificationManager::SendUpdate
RECURSIVE ParentKeys(_, _)
ParentKeys(os, parent) ==
    IF parent = nullptr THEN <<>>
    ELSE <<os[parent].key>> \o ParentKeys(os, os[parent].mpParent)

\* the assembly loop: idx runs from keys.size()-1 down to 1, then keys[0]
RECURSIVE AssembleFrom(_, _)
AssembleFrom(keys, idx) ==
    IF idx > 0 THEN keys[idx + 1] \o <<".">> \o AssembleFrom(keys, idx - 1)
    ELSE keys[1]

\* mutant: the keys are joined in the order the walk collected them
AssembleKey_InnerFirst(os, item) ==
    LET keys == <<os[item].key>> \o ParentKeys(os, os[item].mpParent)
        RECURSIVE Join(_)
        Join(k) == IF k = Len(keys) THEN keys[k] ELSE keys[k] \o <<".">> \o Join(k + 1)
    IN  Join(1)

AssembleKey(os, item) ==
    LET keys == <<os[item].key>> \o ParentKeys(os, os[item].mpParent)
    IN  AssembleFrom(keys, Len(keys) - 1)

Note(delegate, path, value) == [to |-> delegate, path |-> path, value |-> value]

\* mutant: the default delegate is used instead of the current one
ManagerSendUpdate_Default(os, item, value) ==
    Note("console", AssembleKey(os, item), value)

ManagerSendUpdate(os, item, value) ==
    Note(mCurrentNotificatinoDelegate, AssembleKey(os, item), value)

\* virtual SendUpdate: a NotifyingValue prints its value and hands it to the
\* manager; NotifyingArray and NotifyingStruct do nothing
SendUpdate(os, id) ==
    IF os[id].kind = "value" THEN <<ManagerSendUpdate(os, id, ToText(os[id].mValue))>>
    ELSE <<>>

\* mutant: the vector is walked from its end
RECURSIVE NotifyEach_Reversed(_, _)
NotifyEach_Reversed(os, list) ==
    IF list = <<>> THEN <<>>
    ELSE NotifyEach_Reversed(os, Tail(list)) \o SendUpdate(os, Head(list))

RECURSIVE NotifyEach(_, _)
NotifyEach(os, list) ==
    IF list = <<>> THEN <<>>
    ELSE SendUpdate(os, Head(list)) \o NotifyEach(os, Tail(list))

\* ---- UpdateValue ----
\* NotifyingValue::UpdateValue: the body is commented out, nothing is stored
NotifyingValue_UpdateValue(os, id, text) == os

\* getline(ss, item, ','): tokens up to each comma; fails at end of input
FirstComma(s) ==
    IF \E k \in 1..Len(s) : s[k] = ","
    THEN CHOOSE k \in 1..Len(s) : s[k] = "," /\ \A j \in 1..(k - 1) : s[j] # ","
    ELSE 0

RECURSIVE GetLines(_)
GetLines(s) ==
    IF s = <<>> THEN <<>>
    ELSE LET k == FirstComma(s)
         IN  IF k = 0 THEN <<s>>
             ELSE <<SubSeq(s, 1, k - 1)>> \o GetLines(SubSeq(s, k + 1, Len(s)))

\* the loop of NotifyingArray::UpdateValue; idx is never advanced
RECURSIVE ArrayForward(_, _, _, _)
ArrayForward(os, id, items, idx) ==
    IF items = <<>> THEN <<>>
    ELSE (IF idx < Len(os[id].mArray)
          THEN <<[elem |-> os[id].mArray[idx + 1], text |-> Head(items)]>>
          ELSE <<>>)
         \o ArrayForward(os, id, Tail(items), idx)

NotifyingArray_UpdateValue(os, id, text) == ArrayForward(os, id, GetLines(text), 0)

\* the calls to NotifyingValue::UpdateValue that v->UpdateValue(text) makes
UpdateValueCalls(os, id, text) ==
    IF os[id].kind = "value" THEN <<[elem |-> id, text |-> text]>>
    ELSE IF os[id].kind = "array" THEN NotifyingArray_UpdateValue(os, id, text)
    ELSE <<>>

RECURSIVE ApplyCalls(_, _)
ApplyCalls(os, calls) ==
    IF calls = <<>> THEN os
    ELSE ApplyCalls(NotifyingValue_UpdateValue(os, Head(calls).elem, Head(calls).text),
                    Tail(calls))

\* mutant: the scan does not stop at the first match, the last one wins
RECURSIVE FindKey_LastMatch(_, _, _)
FindKey_LastMatch(os, list, key) ==
    IF list = <<>> THEN nullptr
    ELSE IF os[list[Len(list)]].key = key THEN list[Len(list)]
    ELSE FindKey_LastMatch(os, SubSeq(list, 1, Len(list) - 1), key)

\* mutant: the scan runs over every object constructed, registered or not
FindKey_AllObjects(os, list, key) ==
    IF \E id \in 1..Len(os) : os[id].key = key
    THEN CHOOSE id \in 1..Len(os) :
            os[id].key = key /\ \A j \in 1..(id - 1) : os[j].key # key
    ELSE nullptr

\* the scan of ValueNotificationManager::Update: first entry whose key matches
RECURSIVE FindKey(_, _, _)
FindKey(os, list, key) ==
    IF list = <<>> THEN nullptr
    ELSE IF os[Head(list)].key = key THEN Head(list)
    ELSE FindKey(os, Tail(list), key)

\* ---- the record of the last operation ----
Op(op, obj, key, text, retVal, retBool, calls) ==
    [op |-> op, obj |-> obj, key |-> key, text |-> text,
     retVal |-> retVal, retBool |-> retBool, calls |-> calls, ref |-> nullptr]

Init ==
    /\ mInstance = nullptr
    /\ objs = <<>>
    /\ mp_Values = <<>>
    /\ mCurrentNotificatinoDelegate = "console"
    /\ received = <<>>
    /\ last = Op("start", 0, <<>>, <<>>, 0, FALSE, <<>>)

\* ---- constructors ----
\* NotifyingValue(parent, name, value): registers itself
NewValue(parent, name, value) ==
    /\ Len(objs) < MaxObjs
    /\ LET id == Len(objs) + 1
       IN  /\ objs' = Append(objs, Obj("value", name, parent, value, <<>>))
           /\ mInstance' = GetInstance
           /\ mp_Values' = Add(mp_Values, id)
           /\ last' = Op("NewValue", id, name, <<>>, 0, FALSE, <<>>)
    /\ UNCHANGED <<mCurrentNotificatinoDelegate, received>>

\* NotifyingArray(parent, name): Init()s each element, then registers itself
RECURSIVE InitElems(_, _, _)
InitElems(list, first, n) ==
    IF n = 0 THEN list ELSE InitElems(Add(list, first), first + 1, n - 1)

\* mutant: each element is Init()ed with itself as parent
NewArray_ElementOwnParent(parent, name, size) ==
    /\ Len(objs) + size + 1 <= MaxObjs
    /\ LET id == Len(objs) + 1
           elems == [i \in 1..size |-> id + i]
           cells == [i \in 1..size |-> Obj("value", ToText(i - 1), id + i, 0, <<>>)]
       IN  /\ objs' = Append(objs, Obj("array", name, parent, 0, elems)) \o cells
           /\ mInstance' = GetInstance
           /\ mp_Values' = Add(InitElems(mp_Values, id + 1, size), id)
           /\ last' = Op("NewArray", id, name, <<>>, size, FALSE, <<>>)
    /\ UNCHANGED <<mCurrentNotificatinoDelegate, received>>

\* mutant: the elements are keyed from 1
NewArray_OneBased(parent, name, size) ==
    /\ Len(objs) + size + 1 <= MaxObjs
    /\ LET id == Len(objs) + 1
           elems == [i \in 1..size |-> id + i]
           cells == [i \in 1..size |-> Obj("value", ToText(i), id, 0, <<>>)]
       IN  /\ objs' = Append(objs, Obj("array", name, parent, 0, elems)) \o cells
           /\ mInstance' = GetInstance
           /\ mp_Values' = Add(InitElems(mp_Values, id + 1, size), id)
           /\ last' = Op("NewArray", id, name, <<>>, size, FALSE, <<>>)
    /\ UNCHANGED <<mCurrentNotificatinoDelegate, received>>

\* mutant: the array registers itself before its elements
NewArrayUpTo_SelfFirst(limit, parent, name, size) ==
    /\ Len(objs) + size + 1 <= limit
    /\ LET id == Len(objs) + 1
           elems == [i \in 1..size |-> id + i]
           cells == [i \in 1..size |-> Obj("value", ToText(i - 1), id, 0, <<>>)]
       IN  /\ objs' = Append(objs, Obj("array", name, parent, 0, elems)) \o cells
           /\ mInstance' = GetInstance
           /\ mp_Values' = InitElems(Add(mp_Values, id), id + 1, size)
           /\ last' = Op("NewArray", id, name, <<>>, size, FALSE, <<>>)
    /\ UNCHANGED <<mCurrentNotificatinoDelegate, received>>

\* the constructor, with the number of objects a run may construct as limit
NewArrayUpTo(limit, parent, name, size) ==
    /\ Len(objs) + size + 1 <= limit
    /\ LET id == Len(objs) + 1
           elems == [i \in 1..size |-> id + i]
           cells == [i \in 1..size |-> Obj("value", ToText(i - 1), id, 0, <<>>)]
       IN  /\ objs' = Append(objs, Obj("array", name, parent, 0, elems)) \o cells
           /\ mInstance' = GetInstance
           /\ mp_Values' = Add(InitElems(mp_Values, id + 1, size), id)
           /\ last' = Op("NewArray", id, name, <<>>, size, FALSE, <<>>)
    /\ UNCHANGED <<mCurrentNotificatinoDelegate, received>>

NewArray(parent, name, size) == NewArrayUpTo(MaxObjs, parent, name, size)

\* NotifyingStruct(parent, key): only the base is initialised
NewStruct(parent, key) ==
    /\ Len(objs) < MaxObjs
    /\ objs' = Append(objs, Obj("struct", key, parent, 0, <<>>))
    /\ last' = Op("NewStruct", Len(objs) + 1, key, <<>>, 0, FALSE, <<>>)
    /\ UNCHANGED <<mInstance, mp_Values, mCurrentNotificatinoDelegate, received>>

\* mutant: the notification is put in front of those delivered before
Assign_Reordered(id, other) ==
    /\ IsValue(objs, id)
    /\ Len(received) < MaxNotes
    /\ LET os == [objs EXCEPT ![id].mValue = other]
       IN  /\ objs' = os
           /\ received' = SendUpdate(os, id) \o received
    /\ mInstance' = GetInstance
    /\ last' = Op("Assign", id, <<>>, <<>>, other, FALSE, <<>>)
    /\ UNCHANGED <<mp_Values, mCurrentNotificatinoDelegate>>

\* mutant: SendUpdate() runs before the store
Assign_NotifyBeforeStore(id, other) ==
    /\ IsValue(objs, id)
    /\ Len(received) < MaxNotes
    /\ objs' = [objs EXCEPT ![id].mValue = other]
    /\ received' = received \o SendUpdate(objs, id)
    /\ mInstance' = GetInstance
    /\ last' = Op("Assign", id, <<>>, <<>>, other, FALSE, <<>>)
    /\ UNCHANGED <<mp_Values, mCurrentNotificatinoDelegate>>

\* ---- NotifyingValue ----
\* operator=(other): store, then SendUpdate()
Assign(id, other) ==
    /\ IsValue(objs, id)
    /\ Len(received) < MaxNotes
    /\ LET os == [objs EXCEPT ![id].mValue = other]
       IN  /\ objs' = os
           /\ received' = received \o SendUpdate(os, id)
    /\ mInstance' = GetInstance
    /\ last' = Op("Assign", id, <<>>, <<>>, other, FALSE, <<>>)
    /\ UNCHANGED <<mp_Values, mCurrentNotificatinoDelegate>>

\* mutant: the conversion also calls SendUpdate()
Read_Notifying(id) ==
    /\ IsValue(objs, id)
    /\ Len(received) < MaxNotes
    /\ received' = received \o SendUpdate(objs, id)
    /\ last' = Op("Read", id, <<>>, <<>>, objs[id].mValue, FALSE, <<>>)
    /\ UNCHANGED <<mInstance, objs, mp_Values, mCurrentNotificatinoDelegate>>

\* operator T() const
Read(id) ==
    /\ IsValue(objs, id)
    /\ last' = Op("Read", id, <<>>, <<>>, objs[id].mValue, FALSE, <<>>)
    /\ UNCHANGED <<mInstance, objs, mp_Values, mCurrentNotificatinoDelegate, received>>

\* ---- NotifyingArray ----
\* operator[](i): mArray[i] with no check of i. For i < Size the element is
\* returned; otherwise the reference lies past the elements, on another
\* object or on none (0), and nothing is reported to the caller
OutOfRange(id) == (0..Len(objs)) \ {objs[id].mArray[k] : k \in 1..Len(objs[id].mArray)}

Index(id, i) ==
    /\ objs[id].kind = "array"
    /\ \E r \in (IF i < Len(objs[id].mArray) THEN {objs[id].mArray[i + 1]}
                 ELSE OutOfRange(id)) :
          last' = [Op("Index", id, <<>>, <<>>, i, FALSE, <<>>) EXCEPT !.ref = r]
    /\ UNCHANGED <<mInstance, objs, mp_Values, mCurrentNotificatinoDelegate, received>>

\* ---- ValueNotificationManager ----
NotifyAll ==
    /\ LET notes == NotifyEach(objs, mp_Values)
       IN  /\ Len(received) + Len(notes) <= MaxNotes
           /\ received' = received \o notes
    /\ mInstance' = GetInstance
    /\ last' = Op("NotifyAll", 0, <<>>, <<>>, 0, FALSE, <<>>)
    /\ UNCHANGED <<objs, mp_Values, mCurrentNotificatinoDelegate>>

\* mutant: the object that was updated sends its update
Update_Notifying(key, value) ==
    /\ LET v == FindKey(objs, mp_Values, key)
           calls == IF v = nullptr THEN <<>> ELSE UpdateValueCalls(objs, v, value)
       IN  /\ objs' = ApplyCalls(objs, calls)
           /\ last' = Op("Update", v, key, value, 0, v # nullptr, calls)
           /\ received' = received \o
                 (IF Len(calls) > 0 /\ Len(received) < MaxNotes
                  THEN SendUpdate(objs, calls[1].elem) ELSE <<>>)
    /\ mInstance' = GetInstance
    /\ UNCHANGED <<mp_Values, mCurrentNotificatinoDelegate>>

Update(key, value) ==
    /\ LET v == FindKey(objs, mp_Values, key)
           calls == IF v = nullptr THEN <<>> ELSE UpdateValueCalls(objs, v, value)
       IN  /\ objs' = ApplyCalls(objs, calls)
           /\ last' = Op("Update", v, key, value, 0, v # nullptr, calls)
    /\ mInstance' = GetInstance
    /\ UNCHANGED <<mp_Values, mCurrentNotificatinoDelegate, received>>

Parents == {nullptr} \cup StructIds(objs)

Next ==
    \/ \E p \in Parents, k \in ValueKeys, v \in InitValues : NewValue(p, k, v)
    \/ \E p \in Parents, k \in ArrayKeys, n \in 1..MaxSize : NewArray(p, k, n)
    \/ \E p \in Parents, k \in StructKeys : NewStruct(p, k)
    \/ \E id \in 1..Len(objs), v \in Values : Assign(id, v)
    \/ \E id \in 1..Len(objs) : Read(id)
    \/ NotifyAll
    \/ \E k \in UpdateKeys,
          t \in Texts : Update(k, t)

Spec == Init /\ [][Next]_vars

\* ---- registering directly ----
\* GetInstance().Add(object), which is public, on an object that exists
Register(id) ==
    /\ Len(mp_Values) <= MaxObjs
    /\ mp_Values' = Add(mp_Values, id)
    /\ mInstance' = GetInstance
    /\ last' = Op("Register", id, <<>>, <<>>, 0, FALSE, <<>>)
    /\ UNCHANGED <<objs, mCurrentNotificatinoDelegate, received>>

\* every operation, on top-level objects, with one key and one text for Update
NextRegister ==
    \/ \E k \in ValueKeys : NewValue(nullptr, k, 0)
    \/ \E k \in ArrayKeys, n \in 1..MaxSize : NewArray(nullptr, k, n)
    \/ NewStruct(nullptr, K_S1L1)
    \/ \E id \in 1..Len(objs), v \in Values : Assign(id, v)
    \/ \E id \in 1..Len(objs) : Read(id)
    \/ NotifyAll
    \/ \E k \in ValueKeys : Update(k, <<"4", "5">>)
    \/ \E id \in 1..Len(objs) : Register(id)

SpecRegister == Init /\ [][NextRegister]_vars

\* ---- arrays only ----
\* top-level arrays, one object more than MaxObjs so that two arrays fit, and
\* Update addressed to an element key and to an array key
NextArrays ==
    \/ \E k \in {K_a1, K_a2}, n \in 1..MaxSize :
          NewArrayUpTo(MaxObjs + 1, nullptr, k, n)
    \/ \E id \in 1..Len(objs), v \in Values : Assign(id, v)
    \/ NotifyAll
    \/ \E k \in {ToText(0), K_a1} : Update(k, <<"4", "5">>)

SpecArrays == Init /\ [][NextArrays]_vars

\* ---- indexing arrays ----
\* construction, assignment, reading and operator[] with any index up to MaxSize
NextIndex ==
    \/ \E p \in Parents, k \in ValueKeys, v \in InitValues : NewValue(p, k, v)
    \/ \E p \in Parents, k \in ArrayKeys, n \in 1..MaxSize : NewArray(p, k, n)
    \/ \E p \in Parents, k \in StructKeys : NewStruct(p, k)
    \/ \E id \in 1..Len(objs), v \in Values : Assign(id, v)
    \/ \E id \in 1..Len(objs) : Read(id)
    \/ \E id \in 1..Len(objs), i \in 0..MaxSize : Index(id, i)

SpecIndex == Init /\ [][NextIndex]_vars

\* ---- replacing the delegate ----
\* set_listener(l): the manager's delegate becomes l
SetListener(l) ==
    /\ mCurrentNotificatinoDelegate' = l
    /\ last' = Op("SetListener", 0, <<>>, <<>>, 0, FALSE, <<>>)
    /\ UNCHANGED <<mInstance, objs, mp_Values, received>>

\* Read and Update deliver nothing and are left out of this specification
NextListener ==
    \/ \E p \in Parents, k \in ValueKeys, v \in InitValues : NewValue(p, k, v)
    \/ \E p \in Parents, k \in ArrayKeys, n \in 1..MaxSize : NewArray(p, k, n)
    \/ \E p \in Parents, k \in StructKeys : NewStruct(p, k)
    \/ \E id \in 1..Len(objs), v \in Values : Assign(id, v)
    \/ NotifyAll
    \/ \E l \in Delegates : SetListener(l)

SpecListener == Init /\ [][NextListener]_vars

\* ---- serialising an array and applying the text back ----
\* values held by the array that is serialised
RTValues == {1, 2, 3}

\* send_update() of an array in the whole-array model: "[v0 v1 ... vN-1 ]"
RECURSIVE ArrayText(_, _, _)
ArrayText(os, elems, k) ==
    IF k > Len(elems) THEN <<"]">>
    ELSE ToText(os[elems[k]].mValue) \o <<" ">> \o ArrayText(os, elems, k + 1)

SerializeArray(id) ==
    /\ objs[id].kind = "array"
    /\ Len(received) < Len(objs)
    /\ LET text == <<"[">> \o ArrayText(objs, objs[id].mArray, 1)
       IN  /\ received' = Append(received, ManagerSendUpdate(objs, id, text))
           /\ last' = Op("Serialize", id, <<>>, text, 0, FALSE, <<>>)
    /\ UNCHANGED <<mInstance, objs, mp_Values, mCurrentNotificatinoDelegate>>

\* two arrays a1 and a2 of the same size have been constructed, and the
\* elements of a1 assigned in index order
InitRoundTrip ==
    \E vals \in [1..Cardinality(RTValues) -> RTValues] :
        LET n == Len(vals)
            arr(id, key) == <<Obj("array", key, nullptr, 0, [i \in 1..n |-> id + i])>>
            cells(id, vs) == [i \in 1..n |-> Obj("value", ToText(i - 1), id, vs[i], <<>>)]
            os == arr(1, K_a1) \o cells(1, vals)
                    \o arr(n + 2, K_a2) \o cells(n + 2, [i \in 1..n |-> 0])
        IN  /\ mInstance = 1
            /\ objs = os
            /\ mp_Values = Add(InitElems(Add(InitElems(<<>>, 2, n), 1), n + 3, n), n + 2)
            /\ mCurrentNotificatinoDelegate = "console"
            /\ received = [i \in 1..n |->
                              Note("console", AssembleKey(os, i + 1), ToText(vals[i]))]
            /\ last = Op("Assign", n + 1, <<>>, <<>>, vals[n], FALSE, <<>>)

NextRoundTrip ==
    \/ \E id \in 1..Len(objs) : SerializeArray(id)
    \/ \E k \in {K_a1, K_a2} : last.op = "Serialize" /\ Update(k, last.text)
    \/ \E id \in 1..Len(objs) : Read(id)

SpecRoundTrip == InitRoundTrip /\ [][NextRoundTrip]_vars

\* ---- what the properties are stated with ----
\* the value a decimal text denotes
IsDigit(c) == \E d \in 0..9 : Digit(d) = c
DigitVal(c) == CHOOSE d \in 0..9 : Digit(d) = c

RECURSIVE NatValue(_, _)
NatValue(s, acc) ==
    IF s = <<>> THEN acc ELSE NatValue(Tail(s), acc * 10 + DigitVal(Head(s)))

IsNumber(s) ==
    LET body == IF s # <<>> /\ Head(s) = "-" THEN Tail(s) ELSE s
    IN  body # <<>> /\ \A k \in 1..Len(body) : IsDigit(body[k])

Denotes(s) == IF Head(s) = "-" THEN 0 - NatValue(Tail(s), 0) ELSE NatValue(s, 0)

\* the keys from the outermost ancestor down to the object, joined with "."
RECURSIVE DottedPath(_, _)
DottedPath(os, id) ==
    IF os[id].mpParent = nullptr THEN os[id].key
    ELSE DottedPath(os, os[id].mpParent) \o <<".">> \o os[id].key

Registered == {mp_Values[i] : i \in 1..Len(mp_Values)}
NewNotes == SubSeq(received', Len(received) + 1, Len(received'))
LastNote == received[Len(received)]

\* C1: every assignment of v to a scalar stores v and delivers exactly one
\* notification, to the current delegate, whose text is the decimal form of v
C1_AssignStoresAndNotifiesOnce ==
    [][last'.op = "Assign" =>
          /\ objs'[last'.obj].mValue = last'.retVal
          /\ Len(received') = Len(received) + 1
          /\ SubSeq(received', 1, Len(received)) = received
          /\ NewNotes[1].to = mCurrentNotificatinoDelegate
          /\ IsNumber(NewNotes[1].value)
          /\ Denotes(NewNotes[1].value) = last'.retVal
          /\ NewNotes[1].value = ToText(last'.retVal)]_vars

\* a nested scalar has just been assigned the value it already held and
\* both assignments were notified with the text "-56"
C1_Witness ==
    /\ last.op = "Assign"
    /\ objs[last.obj].mpParent # nullptr
    /\ Len(received) = 2
    /\ received[1] = received[2]
    /\ LastNote.value = <<"-", "5", "6">>

\* C2: reading a scalar returns its value, delivers no notification and
\* leaves every object and the registration list unchanged
C2_ReadIsPure ==
    [][last'.op = "Read" =>
          /\ last'.retVal = objs[last'.obj].mValue
          /\ UNCHANGED <<objs, mp_Values, received>>]_vars

\* an array element was read after notifications had been delivered
C2_Witness ==
    /\ last.op = "Read"
    /\ objs[last.obj].mpParent # nullptr
    /\ objs[objs[last.obj].mpParent].kind = "array"
    /\ received # <<>>

\* C3: the path delivered for an assigned scalar is its keys from the
\* outermost ancestor down to itself joined with ".", with no separator at
\* either end
C3_PathIsOuterToInner ==
    [][last'.op = "Assign" =>
          LET path == NewNotes[1].path
          IN  /\ path = DottedPath(objs', last'.obj)
              /\ Head(path) # "."
              /\ path[Len(path)] # "."
              /\ objs[last'.obj].mpParent = nullptr => path = objs[last'.obj].key]_vars

\* a scalar two levels deep was assigned and notified as "S1L2.S1L1.i1"
C3_Witness ==
    /\ last.op = "Assign"
    /\ LastNote.path = <<"S", "1", "L", "2", ".", "S", "1", "L", "1", ".", "i", "1">>

\* C4: an Update whose key matches a registered scalar and whose text is a
\* number returns true and leaves the scalar holding that number
C4_UpdateStoresParsedValue ==
    [][(/\ last'.op = "Update"
        /\ last'.obj # nullptr
        /\ IsValue(objs, last'.obj)
        /\ IsNumber(last'.text)) =>
          /\ last'.retBool
          /\ objs'[last'.obj].mValue = Denotes(last'.text)]_vars

\* C5: no Update delivers a notification
C5_UpdateIsSilent ==
    [][last'.op = "Update" => received' = received]_vars

\* an Update matched an array and forwarded tokens to its elements
C5_Witness ==
    /\ last.op = "Update"
    /\ last.retBool
    /\ objs[last.obj].kind = "array"
    /\ last.calls # <<>>
    /\ received # <<>>

\* C6: an Update with a key that no registered object has returns false and
\* changes no object, nor the registration list, nor what was delivered
C6_UnknownKeyChangesNothing ==
    [][(/\ last'.op = "Update"
        /\ \A id \in Registered : objs[id].key # last'.key) =>
          /\ ~last'.retBool
          /\ UNCHANGED <<objs, mp_Values, received>>]_vars

\* an Update failed although objects are registered and an unregistered
\* object has the key
C6_Witness ==
    /\ last.op = "Update"
    /\ ~last.retBool
    /\ mp_Values # <<>>
    /\ \E id \in 1..Len(objs) : objs[id].key = last.key

\* C7: NotifyAll delivers, in registration order, one notification per
\* registered scalar with its path and current value, none for arrays and
\* structs, and changes no value and no registration
RegisteredValues == SelectSeq(mp_Values, LAMBDA id : objs[id].kind = "value")

C7_NotifyAllInOrder ==
    [][last'.op = "NotifyAll" =>
          /\ received' = received \o
                [i \in 1..Len(RegisteredValues) |->
                    Note(mCurrentNotificatinoDelegate,
                         DottedPath(objs, RegisteredValues[i]),
                         ToText(objs[RegisteredValues[i]].mValue))]
          /\ UNCHANGED <<objs, mp_Values>>]_vars

\* NotifyAll ran over an array of two elements holding different values
C7_Witness ==
    /\ last.op = "NotifyAll"
    /\ Len(received) = 2
    /\ received[1].path = <<"a", "1", ".", "0">>
    /\ received[2].path = <<"a", "1", ".", "1">>
    /\ \E id \in Registered : objs[id].kind = "array"

C9_TokenKToElementK ==
    [][(/\ last'.op = "Update"
        /\ last'.obj # nullptr
        /\ objs[last'.obj].kind = "array") =>
          LET items == GetLines(last'.text)
              elems == objs[last'.obj].mArray
              n == IF Len(items) < Len(elems) THEN Len(items) ELSE Len(elems)
          IN  last'.calls = [k \in 1..n |-> [elem |-> elems[k], text |-> items[k]]]]_vars

\* C10: every object constructed is in the registration list, so Update
\* finds it by its key
C10_EveryObjectRegistered ==
    \A id \in 1..Len(objs) :
        /\ id \in Registered
        /\ FindKey(objs, mp_Values, objs[id].key) # nullptr

\* C11: indexing an array at i >= Size reports an error to the caller,
\* returns no element and changes no value and nothing delivered
C11_IndexOutOfRangeFails ==
    [][(last'.op = "Index" /\ last'.retVal >= Len(objs[last'.obj].mArray)) =>
          /\ last'.retBool
          /\ last'.ref = nullptr
          /\ UNCHANGED <<objs, received>>]_vars

\* C12: an Update that matches a scalar with a text that is no number leaves
\* the scalar's value unchanged and does not report success
C12_BadTextReportsFailure ==
    [][(/\ last'.op = "Update"
        /\ last'.obj # nullptr
        /\ IsValue(objs, last'.obj)
        /\ ~IsNumber(last'.text)) =>
          /\ objs'[last'.obj].mValue = objs[last'.obj].mValue
          /\ ~last'.retBool]_vars

\* C13: applying the text an array serialises to an array of the same size
\* gives that array the element values of the serialised one
ElemValues(os, id) == [k \in 1..Len(os[id].mArray) |-> os[os[id].mArray[k]].mValue]

C13_ArrayRoundTrip ==
    [][(last.op = "Serialize" /\ last'.op = "Update" /\ last'.obj # nullptr) =>
          ElemValues(objs', last'.obj) = ElemValues(objs, last.obj)]_vars

\* C14: Update compares the key with each registered object's own key in
\* registration order; the earliest match alone gets UpdateValue and true
\* is returned; without a match, as for a dotted path, false is returned
KeyHits(key) == {i \in 1..Len(mp_Values) : objs[mp_Values[i]].key = key}

C14_FirstOwnKeyMatchWins ==
    [][last'.op = "Update" =>
          LET hits == KeyHits(last'.key)
          IN  /\ hits = {} =>
                    /\ ~last'.retBool
                    /\ last'.obj = nullptr
                    /\ last'.calls = <<>>
              /\ hits # {} =>
                    LET v == mp_Values[CHOOSE i \in hits : \A j \in hits : i <= j]
                        own == {v} \cup {objs[v].mArray[k] : k \in 1..Len(objs[v].mArray)}
                    IN  /\ last'.retBool
                        /\ last'.obj = v
                        /\ \A k \in 1..Len(last'.calls) : last'.calls[k].elem \in own
                        /\ \A id \in (1..Len(objs)) \ own : objs'[id] = objs[id]
              /\ last'.key = K_dotted => ~last'.retBool]_vars

\* an Update matched the earlier of two registered scalars that have the
\* same own key under different parents
C14_Witness ==
    /\ last.op = "Update"
    /\ last.retBool
    /\ \E i \in KeyHits(last.key) :
          /\ mp_Values[i] # last.obj
          /\ objs[mp_Values[i]].mpParent # objs[last.obj].mpParent
          /\ \E j \in KeyHits(last.key) : j < i /\ mp_Values[j] = last.obj

\* C15: the registration list only grows at its end: Add appends its
\* argument even when it is already listed, every step keeps the old list
\* as a prefix, and assigning, reading, notifying and updating leave it alone
IsPrefix(a, b) == Len(a) <= Len(b) /\ SubSeq(b, 1, Len(a)) = a

C15_RegistrationAppendOnly ==
    [][/\ IsPrefix(mp_Values, mp_Values')
       /\ last'.op = "Register" => mp_Values' = Append(mp_Values, last'.obj)
       /\ last'.op = "NewValue" => mp_Values' = Append(mp_Values, last'.obj)
       /\ last'.op \in {"Assign", "Read", "NotifyAll", "Update"} =>
             mp_Values' = mp_Values]_vars

\* an object has just been registered a second time and is listed twice
C15_Witness ==
    /\ last.op = "Register"
    /\ \E i, j \in 1..Len(mp_Values) :
          i < j /\ mp_Values[i] = last.obj /\ mp_Values[j] = last.obj

\* C16: an array keeps the elements it was constructed with, Size of them,
\* element i keyed by the decimal text of i with the array as parent; an
\* assignment to element i is notified once, as <path of the array>.<i>
Arrays == {id \in 1..Len(objs) : objs[id].kind = "array"}
IndexIn(a, e) == (CHOOSE k \in 1..Len(objs[a].mArray) : objs[a].mArray[k] = e) - 1

C16_ArrayElementsKeyedByIndex ==
    /\ [](\A a \in Arrays :
            /\ objs[objs[a].mArray[1]].key = <<"0">>
            /\ \A k \in 1..Len(objs[a].mArray) :
                  LET e == objs[a].mArray[k]
                  IN  /\ objs[e].kind = "value"
                      /\ objs[e].key = ToText(k - 1)
                      /\ objs[e].mpParent = a
                      /\ \A j \in 1..Len(objs[a].mArray) : j # k => objs[a].mArray[j] # e)
    /\ [][/\ \A a \in Arrays : objs'[a].mArray = objs[a].mArray
          /\ last'.op = "NewArray" => Len(objs'[last'.obj].mArray) = last'.retVal
          /\ (last'.op = "Assign" /\ objs[last'.obj].mpParent \in Arrays) =>
                LET a == objs[last'.obj].mpParent
                IN  /\ received' = Append(received,
                          Note(mCurrentNotificatinoDelegate,
                               DottedPath(objs, a) \o <<".">> \o ToText(IndexIn(a, last'.obj)),
                               ToText(last'.retVal)))
                    /\ received'[Len(received')].path # DottedPath(objs, a)]_vars

\* element 0 of an array inside a struct was assigned -56
C16_Witness ==
    /\ last.op = "Assign"
    /\ LastNote.path = <<"S", "1", "L", "1", ".", "a", "1", ".", "0">>
    /\ LastNote.value = <<"-", "5", "6">>

\* C17: every step leaves what was delivered as a prefix of what is
\* delivered; an assignment's notification is there when it returns, as the
\* last one; NotifyAll adds one per registered scalar; no other operation
\* delivers anything, so nothing is delivered late
C17_DeliveryInProgramOrder ==
    [][/\ IsPrefix(received, received')
       /\ last'.op = "Assign" =>
             /\ Len(received') = Len(received) + 1
             /\ received'[Len(received')].path = DottedPath(objs, last'.obj)
             /\ received'[Len(received')].value = ToText(last'.retVal)
       /\ last'.op = "NotifyAll" =>
             Len(received') = Len(received) + Len(RegisteredValues)
       /\ last'.op \notin {"Assign", "NotifyAll"} => received' = received]_vars

\* an assignment was notified after an earlier, different notification
C17_Witness ==
    /\ last.op = "Assign"
    /\ Len(received) = 2
    /\ received[1].path # received[2].path
    /\ received[2].path = DottedPath(objs, last.obj)

\* C18: there is no manager until the first GetInstance call, that call
\* makes the only one there ever is, and every later call returns it
CallsGetInstance == {"NewValue", "NewArray", "Assign", "NotifyAll", "Update"}

C18_LazySingleton ==
    /\ mInstance = nullptr
    /\ [](mInstance \in {nullptr, 1})
    /\ [](mInstance = nullptr => mp_Values = <<>> /\ received = <<>>)
    /\ [][/\ mInstance # nullptr => mInstance' = mInstance
          /\ last'.op \in CallsGetInstance => mInstance' # nullptr
          /\ (mInstance = nullptr /\ last'.op \notin CallsGetInstance) =>
                mInstance' = nullptr]_vars

\* several objects registered and an Update ran, all on the one manager
C18_Witness ==
    /\ mInstance = 1
    /\ last.op = "Update"
    /\ Len(mp_Values) >= 2
    /\ received # <<>>

\* C19: from every object the parent links reach an object without parent
\* in at most as many steps as there are objects, and its path has one key
\* more than it has ancestors
RECURSIVE StepsToTop(_, _, _)
StepsToTop(os, id, fuel) ==
    IF os[id].mpParent = nullptr THEN 0
    ELSE IF fuel = 0 THEN -1
    ELSE LET up == StepsToTop(os, os[id].mpParent, fuel - 1)
         IN  IF up < 0 THEN -1 ELSE up + 1

C19_ParentsAcyclic ==
    \A id \in 1..Len(objs) :
        LET depth == StepsToTop(objs, id, Len(objs))
        IN  /\ depth >= 0
            /\ objs[id].mpParent < id
            /\ Len(<<objs[id].key>> \o ParentKeys(objs, objs[id].mpParent)) = depth + 1
            /\ LET path == AssembleKey(objs, id)
               IN  Cardinality({k \in 1..Len(path) : path[k] = "."}) = depth

\* an object two levels deep exists
C19_Witness ==
    \E id \in 1..Len(objs) : StepsToTop(objs, id, Len(objs)) = 2

\* C20: constructing an array of Size N appends N + 1 entries, its
\* elements 0..N-1 in that order and then the array, so every element
\* stands before its array in the list and Update("0", text) goes to
\* element 0 of the array constructed first
PositionOf(id) == CHOOSE i \in 1..Len(mp_Values) : mp_Values[i] = id

====
